---- MODULE Spec2Model ----
(***************************************************************************)
(* The bencoding decoder of src/src/bencoding.py as a state machine.       *)
(*                                                                         *)
(* The decoder is a recursive descent over a byte buffer.  The Python call *)
(* stack is the variable `stack`: one frame per active call, the callee on  *)
(* top.  One step of the machine runs the top frame up to its next call,    *)
(* return or raise.  An exception is never caught inside the decoder, so a  *)
(* raise ends the run: `outcome` takes the exception's type and the stack   *)
(* stays as it was at the raise (the traceback).                            *)
(*                                                                         *)
(* A run starts at the call Decoder.decode(bencoded_data), before the       *)
(* Decoder is constructed.  The interpreter bounds the depth of the call    *)
(* stack (sys.getrecursionlimit()) and the length of a digit string int()   *)
(* converts (sys.get_int_max_str_digits()); both bounds end a run with an   *)
(* exception and are part of the machine.                                   *)
(***************************************************************************)
EXTENDS Integers, Sequences, FiniteSets, TLC

VARIABLES
    data,       \* bencoded_data, then self._data: the items of the argument
    kind,       \* the type of the argument: "bytes", "bytearray", "str", "NoneType"
    base,       \* the depth of the interpreter's call stack at the caller of decode
    index,      \* self._index
    char,       \* self._char: the code point of chr(data[index]), or None
    stack,      \* the call stack, callee last
    ret,        \* the value the last completed call returned
    outcome,    \* "running", "returned", or the type of the exception raised
    message,    \* the message of the exception raised
    consumed    \* number of completed consumption steps (_consume, _decode_char)

vars == <<data, kind, base, index, char, stack, ret, outcome, message, consumed>>

\* what a run is given: it never changes
inputs == <<data, kind, base>>

(***************************************************************************)
(* Bounds of the inputs.                                                   *)
(***************************************************************************)
MaxLen == 4
MaxTokens == 4
MaxPairs == 3
MaxDigits == 3
MaxContent == 2
MaxRoom == 8

(***************************************************************************)
(* Characters.  chr(b) of a byte b is the character with code point b; a   *)
(* character is modelled by its code point and None by NoChar.             *)
(***************************************************************************)
NoChar == -1
ChD == 100
ChL == 108
ChI == 105
ChE == 101
ChZero == 48
ChNine == 57
ChColon == 58
ChMinus == 45
ChA == 97
ChB == 98
ChNul == 0
ChSup2 == 178
ChSup3 == 179
ChSup1 == 185

\* sys.getrecursionlimit(): the deepest call stack the interpreter allows
RecursionLimit == 1000
\* sys.get_int_max_str_digits(): the longest digit string int() converts
IntMaxStrDigits == 4300

Chr(b) == b

\* str.isdigit() of a one-character string with code point c in 0..255:
\* the ASCII digits and the superscript digits U+00B2, U+00B3, U+00B9.
IsDigit(c) == c \in ChZero..ChNine \/ c \in {ChSup2, ChSup3, ChSup1}

\* `self._char and self._char.isdigit()`: None is falsy, every character is truthy.
CharIsDigit(c) == c # NoChar /\ IsDigit(c)

\* str(num) for num in range(10)
StrOfDigit(n) == ChZero + n

\* the number a string of ASCII digits writes in base 10
RECURSIVE DecimalOf(_)
DecimalOf(s) ==
    IF s = <<>> THEN 0
    ELSE 10 * DecimalOf(SubSeq(s, 1, Len(s) - 1)) + (s[Len(s)] - ChZero)

(***************************************************************************)
(* Values.  A BencodedValue is a tagged record; a Python dict is the       *)
(* sequence of its (key, value) entries in insertion order.                *)
(***************************************************************************)
NoValue == [t |-> "none", v |-> 0]
IntValue(n) == [t |-> "int", v |-> n]
StrValue(bs) == [t |-> "str", v |-> bs]
ListValue(xs) == [t |-> "list", v |-> xs]
DictValue(es) == [t |-> "dict", v |-> es]

HasKey(d, k) == \E i \in 1..Len(d) : d[i][1] = k
KeyPos(d, k) == CHOOSE i \in 1..Len(d) : d[i][1] = k

\* mutant of DictSetItem: an assignment to a key already present moves its
\* entry to the end
DictSetItemMovingToEnd(d, k, v) ==
    Append(SelectSeq(d, LAMBDA entry : entry[1] # k), <<k, v>>)

\* dictionary[key] = value
DictSetItem(d, k, v) ==
    IF HasKey(d, k) THEN [d EXCEPT ![KeyPos(d, k)] = <<k, v>>]
    ELSE Append(d, <<k, v>>)

(***************************************************************************)
(* The cursor.                                                             *)
(***************************************************************************)
\* self._data[i], Python's 0-based index
At(i) == data[i + 1]

\* the lookahead the code derives after moving the cursor to i
Lookahead(i) == IF i < Len(data) THEN Chr(At(i)) ELSE NoChar

(***************************************************************************)
(* Error messages.  A message is the sequence of its pieces: literal text, *)
(* a character (by code point) and an integer (written in base 10), as an  *)
(* f-string puts them together; None is formatted as the text "None".      *)
(***************************************************************************)
Text(s) == [t |-> "text", v |-> s]
IntText(n) == [t |-> "int", v |-> n]
CharText(c) == IF c = NoChar THEN Text("None") ELSE [t |-> "chr", v |-> c]

NoMessage == <<>>
MsgEmptyData == <<Text("Empty data provided")>>
MsgNotBytes == <<Text("Given argument is not a bytes object")>>
MsgExtraData == <<Text("Extra data found after valid bencoding")>>
\* f"Expected '{expected_char}' at position {self._index}, got '{self._char}'"
MsgExpected(expected_char, at, got) ==
    <<Text("Expected '"), CharText(expected_char), Text("' at position "),
      IntText(at), Text(", got '"), CharText(got), Text("'")>>
MsgNotBencoding == <<Text("Given data does not follow bencoding format")>>
MsgEndOfDict == <<Text("Unexpected end of data while parsing dictionary")>>
MsgEndOfList == <<Text("Unexpected end of data while parsing list")>>
MsgNegativeZero == <<Text("Negative zero not allowed in bencoding")>>
MsgLeadingZeros == <<Text("Leading zeros not allowed in bencoding integers")>>
MsgNoDigits == <<Text("Expected at least one digit in the bencoding integer")>>
\* raised by self._data[self._index] outside the buffer
MsgIndexError == <<Text("index out of range")>>
\* raised by int(num) for a string of n > IntMaxStrDigits digits
MsgIntLimit(n) ==
    <<Text("Exceeds the limit ("), IntText(IntMaxStrDigits),
      Text(" digits) for integer string conversion: value has "), IntText(n),
      Text(" digits; use sys.set_int_max_str_digits() to increase the limit")>>
\* raised by the interpreter when a call, a comparison or a str() would take
\* the call stack beyond RecursionLimit
MsgRecursion == <<Text("maximum recursion depth exceeded")>>
MsgRecursionCall ==
    <<Text("maximum recursion depth exceeded"), Text(" while calling a Python object")>>
MsgRecursionCompare ==
    <<Text("maximum recursion depth exceeded"), Text(" in comparison")>>
MsgRecursionStr ==
    <<Text("maximum recursion depth exceeded"),
      Text(" while getting the str of an object")>>

\* int(num) of a string of ASCII digits: the value, or the exception raised
\* for a string longer than IntMaxStrDigits
Raised(type, msg) == [t |-> "raise", v |-> <<type, msg>>]
IntOf(s) ==
    IF Len(s) > IntMaxStrDigits
    THEN Raised("ValueError", MsgIntLimit(Len(s)))
    ELSE IntValue(DecimalOf(s))

(***************************************************************************)
(* Call frames.  fn and pc say where the call stands; start is the index   *)
(* at which it was entered; acc, key, num and expected are its locals      *)
(* (dictionary / b_list / byte_data / the digit string num; key; the       *)
(* integer local; expected_char).  pairs is the history of the (key,       *)
(* value) pairs a _decode_dict call has parsed.                            *)
(***************************************************************************)
NewFrame(fn, pc, at) ==
    [fn |-> fn, pc |-> pc, start |-> at, acc |-> <<>>, key |-> <<>>,
     num |-> 0, expected |-> NoChar, pairs |-> <<>>]

Frame(fn, pc) == NewFrame(fn, pc, index)

ConsumeFrame(c) == [Frame("_consume", "test") EXCEPT !.expected = c]

Top == stack[Len(stack)]
Callers == SubSeq(stack, 1, Len(stack) - 1)

At_pc(fn, pc) ==
    /\ outcome = "running"
    /\ stack # <<>>
    /\ Top.fn = fn
    /\ Top.pc = pc

(***************************************************************************)
(* The depth of the interpreter's call stack.  A frame of the decoder      *)
(* takes one level; Decoder(bencoded_data) takes two, one for the call of  *)
(* the class and one for the frame of __init__.  A frame can stand at      *)
(* depth RecursionLimit; what it does there is bounded: a call of a Python *)
(* function or of a builtin, the construction of an exception and a        *)
(* comparison with None raise RecursionError.  A comparison of two         *)
(* strings and a call of isinstance raise it or not, as the interpreter    *)
(* has specialised the instruction or not: the model leaves that choice    *)
(* open.  str(num) takes two levels in the same way.                       *)
(***************************************************************************)
Levels(fn) == IF fn = "__init__" THEN 2 ELSE 1

Depth == base + Len(stack) + (IF stack # <<>> /\ Top.fn = "__init__" THEN 1 ELSE 0)

AtLimit == Depth = RecursionLimit

\* the running call, left as f, ends the run with the exception type(msg)
ThrowIn(f, type, msg) ==
    /\ outcome' = type
    /\ message' = msg
    /\ stack' = Callers \o <<f>>
    /\ UNCHANGED <<inputs, index, char, ret, consumed>>

Throw(type, msg) == ThrowIn(Top, type, msg)

\* the running call becomes f and calls g; the call fails where the frame of
\* g would stand beyond the limit, and the call of the class Decoder fails
\* at the limit as the call of a builtin does
Call(f, g) ==
    IF Depth + Levels(g.fn) > RecursionLimit
    THEN Throw("RecursionError",
               IF g.fn = "__init__" /\ AtLimit THEN MsgRecursionCall ELSE MsgRecursion)
    ELSE /\ stack' = Callers \o <<f, g>>
         /\ UNCHANGED <<inputs, index, char, ret, outcome, message, consumed>>

\* the running call goes on as f
Goto(f) ==
    /\ stack' = Callers \o <<f>>
    /\ UNCHANGED <<inputs, index, char, ret, outcome, message, consumed>>

\* the running call returns v to its caller
Return(v) ==
    /\ stack' = Callers
    /\ ret' = v
    /\ UNCHANGED <<inputs, index, char, outcome, message, consumed>>

\* raise type(msg) in the running call, left as f: nothing in the decoder
\* catches it; at the limit the construction of the exception is the call
\* that fails
RaiseIn(f, type, msg) ==
    IF AtLimit
    THEN ThrowIn(f, "RecursionError", MsgRecursionCall)
    ELSE ThrowIn(f, type, msg)

Raise(type, msg) == RaiseIn(Top, type, msg)

\* mutant of Advance: the lookahead is read before the cursor moves
AdvanceStaleLookahead ==
    /\ index' = index + 1
    /\ char' = Lookahead(index)
    /\ consumed' = consumed + 1

\* self._index += 1, then the lookahead is derived again
Advance ==
    /\ index' = index + 1
    /\ char' = Lookahead(index + 1)
    /\ consumed' = consumed + 1

(***************************************************************************)
(* Decoder.decode and Decoder.__init__                                     *)
(***************************************************************************)
\* decoder = Decoder(bencoded_data)
DecodeNew ==
    /\ At_pc("decode", "new")
    /\ Call([Top EXCEPT !.pc = "call"], Frame("__init__", "guards"))

\* `not bencoded_data`: None and every empty object are falsy
Falsy == data = <<>>

\* the two guards of __init__, then the three assignments
InitGuards ==
    /\ At_pc("__init__", "guards")
    /\ IF Falsy
       THEN Raise("ValueError", MsgEmptyData)
       ELSE IF kind # "bytes"
       THEN Raise("TypeError", MsgNotBytes)
       ELSE IF AtLimit
       THEN Throw("RecursionError", MsgRecursionCall)
       ELSE /\ index' = 0
            /\ char' = Chr(data[1])
            /\ stack' = Callers
            /\ ret' = NoValue
            /\ UNCHANGED <<inputs, outcome, message, consumed>>

\* result = decoder._decode_bencode()
DecodeCall ==
    /\ At_pc("decode", "call")
    /\ Call([Top EXCEPT !.pc = "check"], Frame("_decode_bencode", "dispatch"))

\* mutant of TrailingData: the check for trailing data is left out
TrailingDataUnchecked == FALSE

\* if decoder._char is not None
TrailingData == char # NoChar

\* the check for trailing data, then return result
DecodeCheck ==
    /\ At_pc("decode", "check")
    /\ IF TrailingData
       THEN Raise("ValueError", MsgExtraData)
       ELSE /\ outcome' = "returned"
            /\ stack' = Callers
            /\ UNCHANGED <<inputs, index, char, ret, message, consumed>>

(***************************************************************************)
(* Decoder._consume                                                        *)
(***************************************************************************)
\* _consume in a frame at the limit.  The comparison of line 49 fails when it
\* is not specialised or self._char is None; on a mismatch the f-string of
\* line 58 fails at the str of its first field, before the ValueError is
\* built; on a match the index has moved when the call of chr fails, and only
\* a move to the end of the data, which calls no chr, completes.
ConsumeAtLimit ==
    \/ Throw("RecursionError", MsgRecursionCompare)
    \/ /\ char \notin {NoChar, Top.expected}
       /\ Throw("RecursionError", MsgRecursionStr)
    \/ /\ char = Top.expected
       /\ index + 1 < Len(data)
       /\ index' = index + 1
       /\ outcome' = "RecursionError"
       /\ message' = MsgRecursionCall
       /\ stack' = Callers \o <<[Top EXCEPT !.pc = "moved"]>>
       /\ UNCHANGED <<inputs, char, ret, consumed>>
    \/ /\ char = Top.expected
       /\ index + 1 = Len(data)
       /\ Advance
       /\ stack' = Callers
       /\ ret' = NoValue
       /\ UNCHANGED <<inputs, outcome, message>>

\* _consume; one frame below the limit the f-string of line 58 cannot format
\* None, which takes two levels
Consume ==
    /\ At_pc("_consume", "test")
    /\ IF AtLimit
       THEN ConsumeAtLimit
       ELSE IF char = Top.expected
       THEN /\ Advance
            /\ stack' = Callers
            /\ ret' = NoValue
            /\ UNCHANGED <<inputs, outcome, message>>
       ELSE IF char = NoChar /\ Depth = RecursionLimit - 1
       THEN Throw("RecursionError", MsgRecursionStr)
       ELSE Raise("ValueError", MsgExpected(Top.expected, index, char))

(***************************************************************************)
(* Decoder._decode_bencode                                                 *)
(***************************************************************************)
\* the production the if/elif chain selects for lookahead c
Production(c) ==
    IF c = ChD THEN "_decode_dict"
    ELSE IF c = ChL THEN "_decode_list"
    ELSE IF c = ChI THEN "_decode_int"
    ELSE IF CharIsDigit(c) THEN "_decode_str"
    ELSE "none"

\* the first step of each production
Entry(fn) ==
    IF fn = "_decode_str" THEN Frame(fn, "num") ELSE Frame(fn, "open")

\* _decode_bencode in a frame at the limit: the comparison with "d" fails
\* when it is not specialised or self._char is None; after it the call of the
\* production of "d", "l" or "i" fails, or the call of isdigit
BencodeAtLimit ==
    \/ Throw("RecursionError", MsgRecursionCompare)
    \/ /\ char # NoChar
       /\ Throw("RecursionError",
                IF char \in {ChD, ChL, ChI} THEN MsgRecursion ELSE MsgRecursionCall)

DecodeBencodeDispatch ==
    /\ At_pc("_decode_bencode", "dispatch")
    /\ IF AtLimit
       THEN BencodeAtLimit
       ELSE IF Production(char) = "none"
       THEN Raise("ValueError", MsgNotBencoding)
       ELSE Call([Top EXCEPT !.pc = "return"], Entry(Production(char)))

DecodeBencodeReturn ==
    /\ At_pc("_decode_bencode", "return")
    /\ Return(ret)

(***************************************************************************)
(* Decoder._decode_dict                                                    *)
(***************************************************************************)
\* self._consume("d"); dictionary = {}
DecodeDictOpen ==
    /\ At_pc("_decode_dict", "open")
    /\ Call([Top EXCEPT !.pc = "loop", !.acc = <<>>], ConsumeFrame(ChD))

\* the head of the loop: the end-of-data test, then key = self._decode_str()
DecodeDictLoop ==
    /\ At_pc("_decode_dict", "loop")
    /\ IF char = NoChar
       THEN Raise("ValueError", MsgEndOfDict)
       ELSE Call([Top EXCEPT !.pc = "key"], Frame("_decode_str", "num"))

\* value = self._decode_bencode()
DecodeDictKey ==
    /\ At_pc("_decode_dict", "key")
    /\ Call([Top EXCEPT !.pc = "value", !.key = ret.v],
            Frame("_decode_bencode", "dispatch"))

\* dictionary[key] = value; break if the lookahead is "e"
DecodeDictValue ==
    /\ At_pc("_decode_dict", "value")
    /\ Goto([Top EXCEPT !.acc = DictSetItem(@, Top.key, ret),
                        !.pairs = Append(@, <<Top.key, ret>>),
                        !.pc = IF char = ChE THEN "close" ELSE "loop"])

\* self._consume("e")
DecodeDictClose ==
    /\ At_pc("_decode_dict", "close")
    /\ Call([Top EXCEPT !.pc = "return"], ConsumeFrame(ChE))

DecodeDictReturn ==
    /\ At_pc("_decode_dict", "return")
    /\ Return(DictValue(Top.acc))

(***************************************************************************)
(* Decoder._decode_list                                                    *)
(***************************************************************************)
\* self._consume("l"); b_list = []
DecodeListOpen ==
    /\ At_pc("_decode_list", "open")
    /\ Call([Top EXCEPT !.pc = "loop", !.acc = <<>>], ConsumeFrame(ChL))

\* mutant of DecodeListLoop: the loop tests for "e" before the first element
DecodeListLoopTestingEnd ==
    /\ At_pc("_decode_list", "loop")
    /\ IF char = NoChar
       THEN Raise("ValueError", MsgEndOfList)
       ELSE IF char = ChE
       THEN Goto([Top EXCEPT !.pc = "close"])
       ELSE Call([Top EXCEPT !.pc = "item"], Frame("_decode_bencode", "dispatch"))

\* the head of the loop: the end-of-data test, then self._decode_bencode()
DecodeListLoop ==
    /\ At_pc("_decode_list", "loop")
    /\ IF char = NoChar
       THEN Raise("ValueError", MsgEndOfList)
       ELSE Call([Top EXCEPT !.pc = "item"], Frame("_decode_bencode", "dispatch"))

\* mutant of DecodeListItem: the end of the data closes the list as "e" does
DecodeListItemLenient ==
    /\ At_pc("_decode_list", "item")
    /\ Goto([Top EXCEPT !.acc = Append(@, ret),
                        !.pc = IF char = ChE THEN "close"
                               ELSE IF char = NoChar THEN "return" ELSE "loop"])

\* b_list.append(...); break if the lookahead is "e"
DecodeListItem ==
    /\ At_pc("_decode_list", "item")
    /\ Goto([Top EXCEPT !.acc = Append(@, ret),
                        !.pc = IF char = ChE THEN "close" ELSE "loop"])

\* self._consume("e")
DecodeListClose ==
    /\ At_pc("_decode_list", "close")
    /\ Call([Top EXCEPT !.pc = "return"], ConsumeFrame(ChE))

DecodeListReturn ==
    /\ At_pc("_decode_list", "return")
    /\ Return(ListValue(Top.acc))

(***************************************************************************)
(* Decoder._decode_str and Decoder._decode_char                            *)
(***************************************************************************)
\* num = self._decode_num()
DecodeStrNum ==
    /\ At_pc("_decode_str", "num")
    /\ Call([Top EXCEPT !.pc = "colon"], Frame("_decode_num", "start"))

\* self._consume(":"); byte_data = bytearray()
DecodeStrColon ==
    /\ At_pc("_decode_str", "colon")
    /\ Call([Top EXCEPT !.pc = "chars", !.num = ret.v, !.acc = <<>>],
            ConsumeFrame(ChColon))

\* whether self._data[self._index] is inside the buffer
InBuffer(i) == i < Len(data)

\* one turn of `for _ in range(num)`: byte_val = self._decode_char(); or
\* return bytes(byte_data) after the last
DecodeStrChars ==
    /\ At_pc("_decode_str", "chars")
    /\ IF Len(Top.acc) < Top.num
       THEN Call([Top EXCEPT !.pc = "append"], Frame("_decode_char", "read"))
       ELSE Return(StrValue(Top.acc))

\* byte_data.append(byte_val)
DecodeStrAppend ==
    /\ At_pc("_decode_str", "append")
    /\ Goto([Top EXCEPT !.pc = "chars", !.acc = Append(@, ret.v)])

\* _decode_char has read its byte and moved the index, and the call at pc
\* (len of line 130, chr of line 131) ends the run
CharStopped(pc) ==
    /\ index' = index + 1
    /\ outcome' = "RecursionError"
    /\ message' = MsgRecursionCall
    /\ stack' = Callers \o <<[Top EXCEPT !.pc = pc]>>
    /\ UNCHANGED <<inputs, char, ret, consumed>>

\* _decode_char returns the byte at the index, the cursor one further
CharRead ==
    /\ Advance
    /\ stack' = Callers
    /\ ret' = IntValue(At(index))
    /\ UNCHANGED <<inputs, outcome, message>>

\* _decode_char inside the buffer, in a frame at the limit: the call of len
\* fails when it is not specialised, the call of chr always; only a move to
\* the end of the data, which calls no chr, completes.
CharAtLimit ==
    \/ CharStopped("len")
    \/ index + 1 < Len(data) /\ CharStopped("chr")
    \/ index + 1 = Len(data) /\ CharRead

\* _decode_char: byte_val = self._data[self._index] raises IndexError outside
\* the buffer
DecodeChar ==
    /\ At_pc("_decode_char", "read")
    /\ IF ~InBuffer(index)
       THEN Throw("IndexError", MsgIndexError)
       ELSE IF AtLimit THEN CharAtLimit ELSE CharRead

(***************************************************************************)
(* Decoder._decode_int, _decode_snum                                       *)
(***************************************************************************)
\* self._consume("i")
DecodeIntOpen ==
    /\ At_pc("_decode_int", "open")
    /\ Call([Top EXCEPT !.pc = "snum"], ConsumeFrame(ChI))

\* value = self._decode_snum()
DecodeIntSnum ==
    /\ At_pc("_decode_int", "snum")
    /\ Call([Top EXCEPT !.pc = "close"], Frame("_decode_snum", "dispatch"))

\* self._consume("e")
DecodeIntClose ==
    /\ At_pc("_decode_int", "close")
    /\ Call([Top EXCEPT !.pc = "return", !.num = ret.v], ConsumeFrame(ChE))

DecodeIntReturn ==
    /\ At_pc("_decode_int", "return")
    /\ Return(IntValue(Top.num))

\* the if/elif/else of _decode_snum; at the limit the call of isdigit fails,
\* or, self._char being None, the comparison with "-"
DecodeSnumDispatch ==
    /\ At_pc("_decode_snum", "dispatch")
    /\ IF AtLimit
       THEN Throw("RecursionError",
                  IF char = NoChar THEN MsgRecursionCompare ELSE MsgRecursionCall)
       ELSE IF CharIsDigit(char)
       THEN Call([Top EXCEPT !.pc = "pos"], Frame("_decode_num", "start"))
       ELSE IF char = ChMinus
       THEN Call([Top EXCEPT !.pc = "sign"], ConsumeFrame(ChMinus))
       ELSE Raise("ValueError", MsgNotBencoding)

\* after the "-": the negative-zero test, then self._decode_num()
DecodeSnumSign ==
    /\ At_pc("_decode_snum", "sign")
    /\ IF char = ChZero
       THEN Raise("ValueError", MsgNegativeZero)
       ELSE Call([Top EXCEPT !.pc = "neg"], Frame("_decode_num", "start"))

DecodeSnumPos ==
    /\ At_pc("_decode_snum", "pos")
    /\ Return(IntValue(ret.v))

DecodeSnumNeg ==
    /\ At_pc("_decode_snum", "neg")
    /\ Return(IntValue(- ret.v))

(***************************************************************************)
(* Decoder._decode_num, _decode_digit                                      *)
(***************************************************************************)
\* _decode_num in a frame at the limit: the comparison with "0" fails when it
\* is not specialised or self._char is None; after it the call of
\* _decode_digit fails, or the call of isdigit
NumStartAtLimit ==
    \/ Throw("RecursionError", MsgRecursionCompare)
    \/ /\ char # NoChar
       /\ Throw("RecursionError",
                IF char = ChZero THEN MsgRecursion ELSE MsgRecursionCall)

\* num = ""; the test for a leading "0"
DecodeNumStart ==
    /\ At_pc("_decode_num", "start")
    /\ IF AtLimit
       THEN NumStartAtLimit
       ELSE IF char = ChZero
       THEN Call([Top EXCEPT !.pc = "zero", !.acc = <<>>], Frame("_decode_digit", "scan"))
       ELSE Goto([Top EXCEPT !.pc = "loop", !.acc = <<>>])

\* num += str(digit) for the leading "0"; then a digit after it is an error
DecodeNumZero ==
    /\ At_pc("_decode_num", "zero")
    /\ LET appended == [Top EXCEPT !.acc = Append(@, StrOfDigit(ret.v))]
       IN  IF CharIsDigit(char)
           THEN RaiseIn(appended, "ValueError", MsgLeadingZeros)
           ELSE Goto([appended EXCEPT !.pc = "finish"])

\* while self._char and self._char.isdigit()
DecodeNumLoop ==
    /\ At_pc("_decode_num", "loop")
    /\ IF CharIsDigit(char)
       THEN Call([Top EXCEPT !.pc = "append"], Frame("_decode_digit", "scan"))
       ELSE Goto([Top EXCEPT !.pc = "finish"])

\* num += str(self._decode_digit())
DecodeNumAppend ==
    /\ At_pc("_decode_num", "append")
    /\ Goto([Top EXCEPT !.pc = "loop", !.acc = Append(@, StrOfDigit(ret.v))])

\* if not num: raise; return int(num), which raises for too long a string
DecodeNumFinish ==
    /\ At_pc("_decode_num", "finish")
    /\ IF Top.acc = <<>>
       THEN Raise("ValueError", MsgNoDigits)
       ELSE IF IntOf(Top.acc).t = "raise"
       THEN Throw(IntOf(Top.acc).v[1], IntOf(Top.acc).v[2])
       ELSE Return(IntOf(Top.acc))

\* what stops _decode_digit before its loop compares: at the limit range(10)
\* fails in the comparison of its bounds; one level below, the first
\* str(num) fails when it is not specialised
DigitScanStopped ==
    \/ /\ AtLimit
       /\ Throw("RecursionError", MsgRecursionCompare)
    \/ /\ Depth = RecursionLimit - 1
       /\ Throw("RecursionError", MsgRecursionStr)

\* mutant of DecodeDigitScan: the digit is returned and not consumed
DecodeDigitScanPeeking ==
    /\ At_pc("_decode_digit", "scan")
    /\ \/ DigitScanStopped
       \/ /\ ~AtLimit
          /\ IF \E n \in 0..9 : char = StrOfDigit(n)
             THEN LET n == CHOOSE n \in 0..9 : char = StrOfDigit(n)
                  IN  Goto([Top EXCEPT !.pc = "return", !.num = n])
             ELSE RaiseIn([Top EXCEPT !.num = 9], "ValueError", MsgNotBencoding)

\* for num in range(10): if self._char == str(num): self._consume(str(num));
\* the loop that finds no digit ends with num = 9
DecodeDigitScan ==
    /\ At_pc("_decode_digit", "scan")
    /\ \/ DigitScanStopped
       \/ /\ ~AtLimit
          /\ IF \E n \in 0..9 : char = StrOfDigit(n)
             THEN LET n == CHOOSE n \in 0..9 : char = StrOfDigit(n)
                  IN  Call([Top EXCEPT !.pc = "return", !.num = n],
                           ConsumeFrame(StrOfDigit(n)))
             ELSE RaiseIn([Top EXCEPT !.num = 9], "ValueError", MsgNotBencoding)

\* return num
DecodeDigitReturn ==
    /\ At_pc("_decode_digit", "return")
    /\ Return(IntValue(Top.num))

(***************************************************************************)
(* The buffers decode is run on.                                           *)
(***************************************************************************)
SeqsUpTo(S, n) == UNION {[1..k -> S] : k \in 1..n}

RECURSIVE Concat(_)
Concat(ss) == IF ss = <<>> THEN <<>> ELSE Head(ss) \o Concat(Tail(ss))

\* every buffer of fewer than MaxLen bytes over the byte values of Alphabet,
\* and every buffer of MaxLen bytes over the bytes of the grammar's structure
Alphabet == {ChD, ChL, ChI, ChE, ChZero, ChZero + 1, ChColon, ChSup2}
StructureBytes == {ChD, ChL, ChI, ChE, ChZero, ChColon}
RawBuffers == SeqsUpTo(Alphabet, MaxLen - 1) \cup [1..MaxLen -> StructureBytes]

\* every concatenation of fewer than MaxTokens of these pieces, and every
\* concatenation of MaxTokens of them without the one-byte string
Tokens ==
    { <<ChD>>, <<ChL>>, <<ChE>>,
      <<ChI, ChZero, ChE>>,
      <<ChZero, ChColon>>,
      <<ChZero + 1, ChColon, ChA>> }
ShortTokens == Tokens \ { <<ChZero + 1, ChColon, ChA>> }
TokenBuffers ==
    {Concat(ts) : ts \in SeqsUpTo(Tokens, MaxTokens - 1) \cup [1..MaxTokens -> ShortTokens]}

\* dictionaries, alone and inside a list: of one pair with every kind of
\* value, and of 1..MaxPairs pairs with the two shortest values, keys in any
\* order and repeated
PairTokens ==
    { k \o v : k \in { <<ChZero + 1, ChColon, ChA>>, <<ChZero + 1, ChColon, ChB>> },
               v \in { <<ChI, ChZero, ChE>>, <<ChZero + 1, ChColon, ChA>>,
                       <<ChZero + 2, ChColon, ChSup3, ChNul>>,
                       <<ChL, ChZero, ChColon, ChE>> } }
ShortPairTokens ==
    { k \o v : k \in { <<ChZero + 1, ChColon, ChA>>, <<ChZero + 1, ChColon, ChB>> },
               v \in { <<ChI, ChZero, ChE>>, <<ChZero + 1, ChColon, ChA>> } }
DictOf(ps) == <<ChD>> \o Concat(ps) \o <<ChE>>
DictBuffers ==
    LET ds == {DictOf(<<p>>) : p \in PairTokens}
                \cup {DictOf(ps) : ps \in SeqsUpTo(ShortPairTokens, MaxPairs)}
    IN  ds \cup {<<ChL>> \o d \o <<ChE>> : d \in ds}

\* integers "i" body "e" with bodies of up to MaxDigits signs and digits,
\* with and without the closing "e"
IntBuffers ==
    {<<ChI>> \o b \o e :
        b \in {<<>>} \cup SeqsUpTo({ChMinus, ChZero, ChZero + 1, ChNine}, MaxDigits),
        e \in {<<ChE>>, <<>>}}

\* byte strings: a length prefix, ":" and up to MaxContent bytes of any kind
StrBuffers ==
    {p \o <<ChColon>> \o c :
        p \in SeqsUpTo({ChZero, ChZero + 1, ChZero + 2}, 2),
        c \in {<<>>} \cup SeqsUpTo({ChE, ChColon, ChZero, ChA, ChSup3, ChNul}, MaxContent)}

Buffers == RawBuffers \cup TokenBuffers \cup DictBuffers \cup IntBuffers \cup StrBuffers

(***************************************************************************)
(* The arguments decode is called with, and the depth it is called at.     *)
(***************************************************************************)
BytesArg(b) == [kind |-> "bytes", data |-> b]

\* bytes objects, the empty one included
BytesArgs == {BytesArg(b) : b \in Buffers \cup {<<>>}}

\* arguments that are no bytes objects: empty and not, and None
OtherArgs ==
    {[kind |-> k, data |-> b] :
        k \in {"bytearray", "str"}, b \in {<<>>, <<ChI, ChZero, ChE>>}}
    \cup {[kind |-> "NoneType", data |-> <<>>]}

\* the arguments of the calls made near the recursion limit
NearLimitBuffers ==
    {b \in TokenBuffers \cup IntBuffers \cup StrBuffers : Len(b) <= MaxLen - 1}
    \cup {<<ChL, ChI, ChZero, ChE, ChE>>,
          <<ChD, ChZero + 1, ChColon, ChA, ChI, ChZero, ChE, ChE>>}
NearLimitArgs == {BytesArg(b) : b \in NearLimitBuffers \cup {<<>>}} \cup OtherArgs

\* a call from the top level of a module, whose frame is the only one below
\* decode, and calls that leave decode's frame 0..MaxRoom levels below the limit
Runs ==
    {[arg |-> a, base |-> 1] : a \in BytesArgs \cup OtherArgs}
    \cup {[arg |-> a, base |-> RecursionLimit - 1 - room] :
            a \in NearLimitArgs, room \in 0..MaxRoom}

\* from the top level: an integer of IntMaxStrDigits + 1 digits, and a byte
\* string inside RecursionLimit / 2 lists
LongInteger == <<ChI>> \o [i \in 1..(IntMaxStrDigits + 1) |-> ChZero + 1] \o <<ChE>>
DeepString ==
    [i \in 1..(RecursionLimit \div 2) |-> ChL] \o <<ChZero + 1, ChColon, ChA>>
    \o [i \in 1..(RecursionLimit \div 2) |-> ChE]
LongRuns == {[arg |-> BytesArg(b), base |-> 1] : b \in {LongInteger, DeepString}}

(***************************************************************************)
(* The call Decoder.decode(bencoded_data), then the machine.  Before       *)
(* __init__ has run the decoder has no _index and no _char.                *)
(***************************************************************************)
InitOn(runs) ==
    /\ \E run \in runs :
          /\ data = run.arg.data
          /\ kind = run.arg.kind
          /\ base = run.base
    /\ index = 0
    /\ char = NoChar
    /\ stack = <<NewFrame("decode", "new", 0)>>
    /\ ret = NoValue
    /\ outcome = "running"
    /\ message = NoMessage
    /\ consumed = 0

Init == InitOn(Runs)

Next ==
    \/ DecodeNew
    \/ InitGuards
    \/ DecodeCall
    \/ DecodeCheck
    \/ Consume
    \/ DecodeBencodeDispatch
    \/ DecodeBencodeReturn
    \/ DecodeDictOpen
    \/ DecodeDictLoop
    \/ DecodeDictKey
    \/ DecodeDictValue
    \/ DecodeDictClose
    \/ DecodeDictReturn
    \/ DecodeListOpen
    \/ DecodeListLoop
    \/ DecodeListItem
    \/ DecodeListClose
    \/ DecodeListReturn
    \/ DecodeStrNum
    \/ DecodeStrColon
    \/ DecodeStrChars
    \/ DecodeStrAppend
    \/ DecodeChar
    \/ DecodeIntOpen
    \/ DecodeIntSnum
    \/ DecodeIntClose
    \/ DecodeIntReturn
    \/ DecodeSnumDispatch
    \/ DecodeSnumSign
    \/ DecodeSnumPos
    \/ DecodeSnumNeg
    \/ DecodeNumStart
    \/ DecodeNumZero
    \/ DecodeNumLoop
    \/ DecodeNumAppend
    \/ DecodeNumFinish
    \/ DecodeDigitScan
    \/ DecodeDigitReturn

Spec == Init /\ [][Next]_vars

\* decode runs without yielding: a step that can be taken is taken
LiveSpec == Spec /\ WF_vars(Next)

\* the runs of Spec and the two long runs
LimitSpec == InitOn(Runs \cup LongRuns) /\ [][Next]_vars

(***************************************************************************)
(* Shorthands for the properties.                                          *)
(***************************************************************************)
\* the run has ended with an exception
Failed == outcome \in {"ValueError", "TypeError", "IndexError", "RecursionError"}
\* __init__ has returned: the decoder has its _data, _index and _char
Constructed ==
    \A k \in 1..Len(stack) :
        /\ stack[k].fn # "__init__"
        /\ ~(stack[k].fn = "decode" /\ stack[k].pc = "new")
\* the run ended inside a _consume or _decode_char that had moved the index
\* and not yet derived the lookahead
InterruptedStep ==
    /\ outcome = "RecursionError"
    /\ \/ Top.fn = "_consume" /\ Top.pc = "moved"
       \/ Top.fn = "_decode_char" /\ Top.pc \in {"len", "chr"}
IsAsciiDigit(c) == c \in ChZero..ChNine
\* frame k is the running call and stands at pc
OnTop(k, pc) == outcome = "running" /\ k = Len(stack) /\ stack[k].pc = pc

(***************************************************************************)
(* C1: decode returns a value only with the cursor at end-of-input (index  *)
(* = len(buffer), lookahead None); when a byte remains after the complete  *)
(* top-level value, decode raises the trailing-data error and does not     *)
(* return.                                                                 *)
(***************************************************************************)
C1_ReturnsOnlyAtEnd ==
    /\ [](outcome = "returned" => index = Len(data) /\ char = NoChar)
    /\ [][At_pc("decode", "check") /\ index < Len(data)
            => outcome' = "ValueError" /\ message' = MsgExtraData]_vars

\* a complete list was parsed, bytes remain, and decode raised the trailing-data error
C1_Witness ==
    /\ outcome = "ValueError"
    /\ message = MsgExtraData
    /\ ret.t = "list"
    /\ index < Len(data)

(***************************************************************************)
(* C2: a byte string whose declared length exceeds the bytes left ends in  *)
(* the decoder's structured error (ValueError, as every other grammar      *)
(* failure) through a bounds check, and the buffer is never read at an     *)
(* offset >= len(buffer).                                                  *)
(***************************************************************************)
C2_TruncatedStringIsStructuredError ==
    /\ outcome # "IndexError"
    /\ (At_pc("_decode_char", "read") => InBuffer(index))

(***************************************************************************)
(* C6: _decode_bencode enters the dictionary production only for "d", the  *)
(* list production only for "l", the integer production only for "i", the  *)
(* byte-string production only for an ASCII digit; for every other         *)
(* lookahead, end-of-input included, it raises the invalid-grammar error   *)
(* without entering a production and without consuming a byte.             *)
(***************************************************************************)
C6_DispatchOnAsciiLookahead ==
    [][At_pc("_decode_bencode", "dispatch") =>
        IF char = ChD THEN Len(stack') = Len(stack) + 1 /\ Top'.fn = "_decode_dict"
        ELSE IF char = ChL THEN Len(stack') = Len(stack) + 1 /\ Top'.fn = "_decode_list"
        ELSE IF char = ChI THEN Len(stack') = Len(stack) + 1 /\ Top'.fn = "_decode_int"
        ELSE IF IsAsciiDigit(char)
        THEN Len(stack') = Len(stack) + 1 /\ Top'.fn = "_decode_str"
        ELSE /\ outcome' = "ValueError"
             /\ message' = MsgNotBencoding
             /\ stack' = stack
             /\ index' = index]_vars

(***************************************************************************)
(* C8: the cursor invariant.  In every state from the end of __init__ to   *)
(* the end of decode, after each completed _consume or _decode_char step,  *)
(* 0 <= index <= len(buffer), the lookahead is the character of            *)
(* buffer[index] when index < len(buffer), and it is None exactly when     *)
(* index = len(buffer).  A _consume that RecursionError stops between its  *)
(* two assignments is no completed step: it leaves the index one further   *)
(* and the lookahead on the byte it matched.                               *)
(***************************************************************************)
C8_CursorInvariant ==
    /\ Constructed /\ ~InterruptedStep =>
          /\ index \in 0..Len(data)
          /\ (index < Len(data) => char = Chr(At(index)))
          /\ (char = NoChar <=> index = Len(data))
    /\ InterruptedStep =>
          /\ index \in 1..Len(data)
          /\ char = Chr(At(index - 1))
          /\ Top.fn = "_consume" => char = Top.expected

\* a _decode_char step has just moved the cursor to end-of-input
C8_Witness ==
    /\ stack # <<>>
    /\ Top.fn = "_decode_str"
    /\ Top.acc # <<>>
    /\ index = Len(data)
    /\ char = NoChar
    /\ consumed = Len(data)

(***************************************************************************)
(* C3: empty containers are rejected.  decode fails on "de" and "le" at    *)
(* any nesting depth, and every list and dictionary of a returned value    *)
(* tree was built from at least one parsed element or key/value pair.      *)
(***************************************************************************)
RECURSIVE NoEmptyContainer(_)
NoEmptyContainer(v) ==
    IF v.t = "list"
    THEN v.v # <<>> /\ \A i \in 1..Len(v.v) : NoEmptyContainer(v.v[i])
    ELSE IF v.t = "dict"
    THEN v.v # <<>> /\ \A i \in 1..Len(v.v) : NoEmptyContainer(v.v[i][2])
    ELSE TRUE

\* "de" or "le" (c the opening byte) inside n lists
EmptyContainerAt(n, c) == [i \in 1..n |-> ChL] \o <<c, ChE>> \o [i \in 1..n |-> ChE]

\* C3: no returned value, and no container about to return, is or holds an
\* empty list or dictionary; "de" and "le" inside any number of lists fail.
C3_NoEmptyContainers ==
    /\ NoEmptyContainer(ret)
    /\ \A k \in 1..Len(stack) :
          /\ stack[k].fn = "_decode_list" /\ OnTop(k, "return")
                => stack[k].acc # <<>>
          /\ stack[k].fn = "_decode_dict" /\ OnTop(k, "return")
                => stack[k].acc # <<>> /\ stack[k].pairs # <<>>
    /\ \A n \in 0..Len(data), c \in {ChD, ChL} :
          data = EmptyContainerAt(n, c) => outcome # "returned"

\* decode has returned a list that holds a dictionary that holds a list
C3_Witness ==
    /\ outcome = "returned"
    /\ ret.t = "list"
    /\ ret.v[1].t = "dict"
    /\ \E i \in 1..Len(ret.v[1].v) : ret.v[1].v[i][2].t = "list"

(***************************************************************************)
(* C7, as claimed: a decoded dictionary holds every parsed key/value pair  *)
(* in input order, one entry per pair, also when keys are unsorted or      *)
(* repeated.                                                               *)
(***************************************************************************)
C7_EveryPairRecorded ==
    \A k \in 1..Len(stack) :
        stack[k].fn = "_decode_dict" => stack[k].acc = stack[k].pairs

(***************************************************************************)
(* C7, amended: a decoded dictionary holds one entry per distinct parsed   *)
(* key, the entries ordered by the first appearance of their keys, each    *)
(* with the value of the last pair parsed for its key; when the parsed     *)
(* keys are pairwise distinct, sorted or not, the entries are exactly the  *)
(* parsed pairs in input order.                                            *)
(***************************************************************************)
FirstPos(ps, key) == CHOOSE j \in 1..Len(ps) :
    ps[j][1] = key /\ \A h \in 1..(j - 1) : ps[h][1] # key
LastPos(ps, key) == CHOOSE j \in 1..Len(ps) :
    ps[j][1] = key /\ \A h \in (j + 1)..Len(ps) : ps[h][1] # key
DistinctKeys(ps) == \A i, j \in 1..Len(ps) : i # j => ps[i][1] # ps[j][1]

LastWins(d, ps) ==
    /\ DistinctKeys(d)
    /\ \A j \in 1..Len(ps) : \E i \in 1..Len(d) : d[i][1] = ps[j][1]
    /\ \A i \in 1..Len(d) :
          /\ \E j \in 1..Len(ps) : ps[j][1] = d[i][1]
          /\ d[i][2] = ps[LastPos(ps, d[i][1])][2]
    /\ \A i, j \in 1..Len(d) : i < j => FirstPos(ps, d[i][1]) < FirstPos(ps, d[j][1])
    /\ (DistinctKeys(ps) => d = ps)

\* C7, amended: every dictionary being built holds the last value per parsed
\* key, keys in order of first appearance; distinct keys give the pairs as parsed.
C7_LastValuePerKey ==
    \A k \in 1..Len(stack) :
        stack[k].fn = "_decode_dict" => LastWins(stack[k].acc, stack[k].pairs)

\* a dictionary about to return whose third pair repeated the key of the
\* first with another value, a second key between them: the entry of the
\* repeated key stays first and holds the last value
C7_Witness ==
    /\ At_pc("_decode_dict", "return")
    /\ Len(Top.pairs) = 3
    /\ Top.pairs[1][1] = Top.pairs[3][1]
    /\ Top.pairs[1][1] # Top.pairs[2][1]
    /\ Top.pairs[1][2] # Top.pairs[3][2]
    /\ Top.acc = <<Top.pairs[3], Top.pairs[2]>>

(***************************************************************************)
(* The grammar of numbers, stated on the bytes of the buffer.  Positions   *)
(* p are 0-based offsets, as index is.                                     *)
(***************************************************************************)
RECURSIVE Pow10(_)
Pow10(n) == IF n = 0 THEN 1 ELSE 10 * Pow10(n - 1)

RECURSIVE DigitSum(_, _)
DigitSum(m, j) ==
    IF j > Len(m) THEN 0
    ELSE (m[j] - ChZero) * Pow10(Len(m) - j) + DigitSum(m, j + 1)

\* the value of a string of ASCII digits
DecimalValue(m) == DigitSum(m, 1)

\* "0", or a non-zero digit followed by digits
CanonicalDigits(m) ==
    \/ m = <<ChZero>>
    \/ /\ m # <<>>
       /\ m[1] \in (ChZero + 1)..ChNine
       /\ \A j \in 1..Len(m) : IsAsciiDigit(m[j])

\* the offset of the first byte c at or after offset p, or -1
FirstAt(p, c) ==
    LET at == {q \in p..(Len(data) - 1) : At(q) = c}
    IN  IF at = {} THEN -1 ELSE CHOOSE q \in at : \A h \in at : q <= h

\* the bytes at offsets p..(q - 1)
Bytes(p, q) == SubSeq(data, p + 1, q)

(***************************************************************************)
(* C4: _decode_int, entered at an "i", succeeds exactly when the bytes     *)
(* between the "i" and the closing "e" are "0" or an optional "-", a       *)
(* non-zero ASCII digit and then ASCII digits, and it returns that signed  *)
(* decimal value; "-0...", "03", "ie", "i-e" and a missing "e" fail.       *)
(***************************************************************************)
IntBody(p) == Bytes(p + 1, FirstAt(p + 1, ChE))
IntMagnitude(p) ==
    IF IntBody(p)[1] = ChMinus THEN Tail(IntBody(p)) ELSE IntBody(p)
ValidIntAt(p) ==
    /\ FirstAt(p + 1, ChE) # -1
    /\ IntBody(p) # <<>>
    /\ \/ IntBody(p) = <<ChZero>>
       \/ /\ CanonicalDigits(IntMagnitude(p))
          /\ IntMagnitude(p) # <<ChZero>>
IntAt(p) ==
    IF IntBody(p)[1] = ChMinus
    THEN - DecimalValue(IntMagnitude(p))
    ELSE DecimalValue(IntMagnitude(p))

\* C4: _decode_int returns only on a valid integer, with its value and the
\* cursor behind its "e"; a failure inside it means the bytes between "i" and
\* "e" are not valid.
C4_IntegerProduction ==
    \A k \in 1..Len(stack) :
        stack[k].fn = "_decode_int" =>
            /\ OnTop(k, "return") =>
                  /\ ValidIntAt(stack[k].start)
                  /\ stack[k].num = IntAt(stack[k].start)
                  /\ index = FirstAt(stack[k].start + 1, ChE) + 1
            /\ Failed => ~ValidIntAt(stack[k].start)

(***************************************************************************)
(* C5: _decode_str succeeds exactly when a length prefix "0" or non-zero   *)
(* digit and digits, of value N, is followed by ":" and at least N bytes;  *)
(* it returns those N bytes unchanged, whatever their values, and leaves   *)
(* index len(prefix) + 1 + N further, the lookahead on the byte after the  *)
(* string.  "0:" gives the empty byte string; "00:" fails.                 *)
(***************************************************************************)
StrPrefix(p) == Bytes(p, FirstAt(p, ChColon))
ValidStrAt(p) ==
    /\ FirstAt(p, ChColon) # -1
    /\ CanonicalDigits(StrPrefix(p))
    /\ Len(data) - (FirstAt(p, ChColon) + 1) >= DecimalValue(StrPrefix(p))

\* C5: _decode_str returns only on a valid byte string, with its N bytes and
\* the cursor behind them; a failure inside it means the bytes are not valid.
C5_ByteStringProduction ==
    \A k \in 1..Len(stack) :
        stack[k].fn = "_decode_str" =>
            /\ OnTop(k, "chars") /\ Len(stack[k].acc) >= stack[k].num =>
                  LET p == stack[k].start
                      n == DecimalValue(StrPrefix(p))
                      first == FirstAt(p, ChColon) + 1
                  IN  /\ ValidStrAt(p)
                      /\ stack[k].num = n
                      /\ stack[k].acc = Bytes(first, first + n)
                      /\ index = p + Len(StrPrefix(p)) + 1 + n
                      /\ char = Lookahead(index)
            /\ Failed => ~ValidStrAt(stack[k].start)

(***************************************************************************)
(* C9: decode terminates on every buffer, with success or an error.  The   *)
(* index never decreases; a call of _decode_bencode, _decode_str,          *)
(* _decode_int or _decode_digit that returns has advanced index by at      *)
(* least 1, so every turn of the loops of _decode_dict, _decode_list and   *)
(* _decode_num advances it; there are at most len(buffer) consumption      *)
(* steps.                                                                  *)
(***************************************************************************)
\* the running call is about to return to its caller
Returning ==
    /\ outcome = "running"
    /\ stack # <<>>
    /\ \/ Top.fn \in {"_decode_bencode", "_decode_int", "_decode_digit"}
          /\ Top.pc = "return"
       \/ Top.fn = "_decode_str" /\ Top.pc = "chars" /\ Len(Top.acc) >= Top.num

\* a loop of _decode_dict, _decode_list or _decode_num is at its head
AtLoopHead ==
    /\ outcome = "running"
    /\ stack # <<>>
    /\ Top.pc = "loop"
    /\ Top.fn \in {"_decode_dict", "_decode_list", "_decode_num"}

\* the offset a loop started at: after the "d" or "l", or at the first digit
LoopStart(f) == IF f.fn = "_decode_num" THEN f.start ELSE f.start + 1

\* the turns a loop has completed: pairs, elements or digits
Turns(f) == IF f.fn = "_decode_dict" THEN Len(f.pairs) ELSE Len(f.acc)

\* C9: every run ends; index never decreases; returning productions and loop
\* turns have advanced it; consumption steps number index <= len(buffer).
C9_Terminates ==
    /\ <>(outcome # "running")
    /\ [][index' >= index]_vars
    /\ [](Returning => index >= Top.start + 1)
    /\ [](AtLoopHead => index >= LoopStart(Top) + Turns(Top))
    /\ [](/\ consumed <= Len(data)
          /\ index = consumed + (IF InterruptedStep THEN 1 ELSE 0))

\* decode has returned after two turns of a list's loop
C9_Witness ==
    /\ outcome = "returned"
    /\ ret.t = "list"
    /\ Len(ret.v) = 2
    /\ consumed = Len(data)

(***************************************************************************)
(* C10: unterminated containers fail.  When the end of the input is        *)
(* reached inside a list or dictionary that has not consumed its closing   *)
(* "e", decode ends in an error and returns no value; a container          *)
(* production returns only after consuming an "e" that follows a complete  *)
(* element or pair.                                                        *)
(***************************************************************************)
IsContainer(f) == f.fn \in {"_decode_dict", "_decode_list"}

\* the end of the input, with a container open that has not consumed its "e"
EndInsideContainer ==
    /\ outcome = "running"
    /\ index = Len(data)
    /\ \E k \in 1..Len(stack) :
          /\ IsContainer(stack[k])
          /\ ~(k = Len(stack) /\ stack[k].pc = "return")

\* C10: end of input inside an open container leads to failure, never to a
\* returned value; a container returns only behind a consumed "e".
C10_UnterminatedContainersFail ==
    /\ EndInsideContainer ~> Failed
    /\ [][EndInsideContainer => outcome' # "returned"]_vars
    /\ [](\A k \in 1..Len(stack) :
            IsContainer(stack[k]) /\ OnTop(k, "return") =>
                /\ index >= stack[k].start + 3
                /\ At(index - 1) = ChE
                /\ stack[k].acc # <<>>)

\* the input ended between a dictionary key and its value, and decode failed
C10_Witness ==
    /\ Failed
    /\ index = Len(data)
    /\ Len(stack) >= 2
    /\ Top.fn = "_decode_bencode"
    /\ stack[Len(stack) - 1].fn = "_decode_dict"
    /\ stack[Len(stack) - 1].pc = "value"
    /\ stack[Len(stack) - 1].pairs # <<>>

====
